---- MODULE Spec2Model ----
(***************************************************************************)
(* PixPen: the editing session of App.tsx (history, selection, the         *)
(* segmentation and edit requests in flight), the object-selection canvas  *)
(* (hit-testing, hover) and the box validator of segmentationService.ts.   *)
(*                                                                         *)
(* React state is modelled as variables, every handler as one action.     *)
(* An async handler is split at its awaits: the part before the first     *)
(* await is one action, every continuation is another one.                 *)
(* historyIndex is 0-based as in the code; sequences are 1-based.          *)
(***************************************************************************)
EXTENDS Integers, Sequences, FiniteSets, TLC

\* ------------------------------------------------------------------ bounds
\* segmentation requests that may be in flight at the same time
MaxPending == 2
\* longest history the model lets an edit produce
MaxHistory == 2
\* longest box handed to the validator in SpecBox
MaxBoxLen == 5
\* most entries of a response handed to the parser in SpecParse
MaxEntries == 2
\* most objects handed to the aligner in SpecAlign
MaxObjects == 2
\* most mask files handed to the compositor in SpecCombine
MaxMasks == 3

\* ------------------------------------------------------------ JS numbers
\* A JavaScript number: finite (an integer here) or NaN / +Infinity /
\* -Infinity (fin = FALSE, v = 0 / 1 / -1).
Num(n) == [fin |-> TRUE, v |-> n]
NaN == [fin |-> FALSE, v |-> 0]
PosInf == [fin |-> FALSE, v |-> 1]
NegInf == [fin |-> FALSE, v |-> -1]

IsNaN(a) == ~a.fin /\ a.v = 0

\* Number.isFinite
NumberIsFinite(a) == a.fin

\* a < b on JS numbers: false when either side is NaN
JsLt(a, b) ==
    IF IsNaN(a) \/ IsNaN(b) THEN FALSE
    ELSE IF a.fin /\ b.fin THEN a.v < b.v
    ELSE IF a.fin THEN b.v = 1
    ELSE IF b.fin THEN a.v = -1
    ELSE a.v < b.v

JsGt(a, b) == JsLt(b, a)

\* ------------------------------------------------------------- validator
isValidNormalizedBox_LeqOrder(box) ==
    IF Len(box) # 4 THEN FALSE
    ELSE IF \E i \in 1..4 :
             ~NumberIsFinite(box[i]) \/ JsLt(box[i], Num(0)) \/ JsGt(box[i], Num(1000))
         THEN FALSE
         ELSE ~JsGt(box[1], box[3]) /\ ~JsGt(box[2], box[4])

isValidNormalizedBox(box) ==
    IF Len(box) # 4 THEN FALSE
    ELSE LET ymin == box[1]
             xmin == box[2]
             ymax == box[3]
             xmax == box[4]
             values == <<ymin, xmin, ymax, xmax>>
         IN  IF \E i \in 1..4 :
                  \/ ~NumberIsFinite(values[i])
                  \/ JsLt(values[i], Num(0))
                  \/ JsGt(values[i], Num(1000))
             THEN FALSE
             ELSE JsLt(ymin, ymax) /\ JsLt(xmin, xmax)

\* --------------------------------------------------------------- helpers
FilterSeq(s, Keep(_)) ==
    LET F[i \in 0..Len(s)] ==
          IF i = 0 THEN <<>>
          ELSE IF Keep(s[i]) THEN Append(F[i - 1], s[i]) ELSE F[i - 1]
    IN  F[Len(s)]

Range(s) == { s[i] : i \in 1..Len(s) }

Ids(s) == { s[i].id : i \in 1..Len(s) }

\* Math.round of the non-negative rational n / d
RoundDiv(n, d) == (2 * n + d) \div (2 * d)

Max2(a, b) == IF a >= b THEN a ELSE b

\* null for an error message (a message is a tuple of its parts)
None == <<>>

\* null for the hovered id
NoId == -1


\* ------------------------------------------------------------------ data
\* The image file a user may upload (name, natural width and height).
FileA == [name |-> <<"a">>, w |-> 400, h |-> 300]
UploadFiles == {FileA}

\* a second file, for the sessions of SpecHistory in which the user uploads
\* different images
FileB == [name |-> <<"b">>, w |-> 400, h |-> 300]

\* [ymin, xmin, ymax, xmax] of finite numbers
Box(a, b, c, d) == <<Num(a), Num(b), Num(c), Num(d)>>

\* a box-local mask payload as the segmentation model returns it
\* (a raster: its pixel size, the rectangle <<x, y, width, height>> that holds
\* its content, and the grey level 0..255 of that content; the rest is black)
RawMask(src) == [src |-> src, w |-> 64, h |-> 64, rect |-> <<0, 0, 64, 64>>, level |-> 255]

\* a box-local mask of another size or grey level
LocalMask(src, w, h, level) ==
    [src |-> src, w |-> w, h |-> h, rect |-> <<0, 0, w, h>>, level |-> level]

DEFAULT_MASK_THRESHOLD == 127

Entry(box, src, label) == [box |-> box, mask |-> RawMask(src), label |-> label]

\* What parseSegmentationResponse may return for a response: every entry
\* has a 4-element box and a non-empty mask, the box is not yet validated.
RespNested ==
    << Entry(Box(0, 0, 1000, 1000), "n0", "table"),
       Entry(Box(0, 0, 0, 0), "n1", "dot"),
       Entry(Box(100, 100, 500, 500), "n2", "cup") >>

RespPair ==
    << Entry(Box(300, 300, 700, 700), "p0", "vase"),
       Entry(Box(500, 500, 400, 400), "p1", "ghost"),
       Entry(Box(100, 100, 500, 500), "p2", "book") >>

RespInvalid ==
    << Entry(Box(500, 500, 400, 400), "i0", "x"),
       Entry(Box(0, 0, 1001, 500), "i1", "y"),
       Entry(<<Num(0), NaN, Num(10), Num(10)>>, "i2", "z"),
       Entry(<<Num(0), Num(0), PosInf, Num(10)>>, "i3", "u"),
       Entry(Box(-1, 0, 10, 10), "i4", "v") >>

RespEdge ==
    << Entry(Box(999, 999, 1000, 1000), "e0", "speck") >>

RespEmpty == <<>>

Responses == {RespNested, RespPair, RespInvalid, RespEdge, RespEmpty}

\* pointer positions in canvas pixels
Points == { <<150, 100>>, <<390, 10>>, <<100, 50>> }

NoPt == <<>>

\* crops the user may complete, in pixels of the exported canvas
NoCrop == <<>>
Crops == { [width |-> 200, height |-> 150] }

EditModes == {"precision", "chat"}

Prompts == {"", "make it red"}

NoObjectsMsg == <<"No objects detected in the image.">>
TransportMsg == <<"transport error">>
BadBoxMsg(id) == <<"Invalid mask bounding box", id>>
NoImageMsg == <<"no image loaded">>
NoPromptMsg == <<"enter a description">>
NoSelectionMsg == <<"select at least one object">>
GenerateFailedMsg == <<"generation failed">>
NoCropMsg == <<"no crop area selected">>
MaskDimensionsMsg == <<"cannot read the mask dimensions">>
\* what a rejected loadImage throws: the error event, not an Error
ImageErrorEvent == <<"error event">>

\* --------------------------------------------------------- response text
\* response.text is modelled as a sequence of tokens.  A token is one JSON
\* object of the answer ("obj"), a JSON null, a bracket or comma, the opening
\* and closing of a wrapper object {"objects": [ ... ]}, white space ("ws"),
\* commentary ("prose"), a fence of three backticks ("fence_json" when it is
\* tagged json, "fence" when it is bare),
\* or what is left of an object that was cut inside one of its strings
\* ("fragment").  All tokens are records of one shape.

\* a mask string: empty or missing, bare base64, or a PNG data URL
NoMask == [prefix |-> FALSE, data |-> ""]
RawB64(d) == [prefix |-> FALSE, data |-> d]
DataUrl(d) == [prefix |-> TRUE, data |-> d]

\* an absent label
NoLabel == ""

Tok(t) == [t |-> t, box_2d |-> <<>>, mask |-> NoMask, label |-> NoLabel, ticks |-> FALSE]

\* {"box_2d": box, "mask": mask, "label": label}; a missing box_2d is <<>>,
\* a missing mask NoMask, a missing label NoLabel
Obj(box, mask, label) ==
    [t |-> "obj", box_2d |-> box, mask |-> mask, label |-> label, ticks |-> FALSE]

\* an object whose label holds three backticks
ObjTicks(box, mask, label) ==
    [t |-> "obj", box_2d |-> box, mask |-> mask, label |-> label, ticks |-> TRUE]

\* String.prototype.trim
trim(s) ==
    LET keep == { i \in 1..Len(s) : s[i].t # "ws" }
    IN  IF keep = {} THEN <<>>
        ELSE SubSeq(s, CHOOSE i \in keep : \A j \in keep : i <= j,
                       CHOOSE i \in keep : \A j \in keep : i >= j)

\* the token holds a fence tagged json / a fence
HasJsonFence(tok) == tok.t = "fence_json"
HasFence(tok) == tok.t \in {"fence_json", "fence"} \/ tok.ticks

\* indexOf on tokens: the first token the search string lies in, 0 for -1
IndexOfJsonFence(s) ==
    IF \E i \in 1..Len(s) : HasJsonFence(s[i])
    THEN CHOOSE i \in 1..Len(s) :
            HasJsonFence(s[i]) /\ \A j \in 1..(i - 1) : ~HasJsonFence(s[j])
    ELSE 0

IndexOfFence(s) ==
    IF \E i \in 1..Len(s) : HasFence(s[i])
    THEN CHOOSE i \in 1..Len(s) : HasFence(s[i]) /\ \A j \in 1..(i - 1) : ~HasFence(s[j])
    ELSE 0

\* what a slice leaves of the token the fence lies in: nothing of a fence
\* token, a fragment of an object
Rest(tok) == IF tok.t \in {"fence_json", "fence"} THEN <<>> ELSE <<Tok("fragment")>>

\* trimmed.slice(index + 7) / trimmed.slice(index + 3)
SliceAfter(s, i) == Rest(s[i]) \o SubSeq(s, i + 1, Len(s))

\* afterFence.slice(0, closingFence)
SliceBefore(s, i) == SubSeq(s, 1, i - 1) \o Rest(s[i])

\* (closingFence !== -1 ? afterFence.slice(0, closingFence) : afterFence).trim()
FenceInterior(afterFence) ==
    LET closingFence == IndexOfFence(afterFence)
    IN  trim(IF closingFence # 0 THEN SliceBefore(afterFence, closingFence) ELSE afterFence)

stripMarkdownFence(payload) ==
    LET trimmed == trim(payload)
        jsonFenceIndex == IndexOfJsonFence(trimmed)
        genericFenceIndex == IndexOfFence(trimmed)
    IN  IF jsonFenceIndex # 0
        THEN FenceInterior(SliceAfter(trimmed, jsonFenceIndex))
        ELSE IF genericFenceIndex # 0
        THEN FenceInterior(SliceAfter(trimmed, genericFenceIndex))
        ELSE trimmed

\* JSON.parse: a single value, an array of values, or the wrapper object
\* around an array of values; white space between tokens is allowed; it
\* throws on everything else.  value holds the entries the parser maps
\* (Array.isArray(parsed) ? parsed : [parsed]).
IsJsonValue(tok) == tok.t \in {"obj", "null"}

IsElementList(s) ==
    \/ Len(s) = 0
    \/ /\ Len(s) % 2 = 1
       /\ \A i \in 1..Len(s) : IF i % 2 = 1 THEN IsJsonValue(s[i]) ELSE s[i].t = ","

Elements(s) == [k \in 1..((Len(s) + 1) \div 2) |-> s[2 * k - 1]]

JSONparse(payload) ==
    LET p == FilterSeq(payload, LAMBDA tok : tok.t # "ws")
        n == Len(p)
        inner == SubSeq(p, 2, n - 1)
    IN  IF n = 1 /\ IsJsonValue(p[1])
        THEN [threw |-> FALSE, entries |-> <<p[1]>>]
        ELSE IF n >= 2 /\ p[1].t = "[" /\ p[n].t = "]" /\ IsElementList(inner)
        THEN [threw |-> FALSE, entries |-> Elements(inner)]
        ELSE IF n >= 2 /\ p[1].t = "wrap[" /\ p[n].t = "]wrap" /\ IsElementList(inner)
        THEN [threw |-> FALSE, entries |-> <<Tok("wrapper")>>]
        ELSE [threw |-> TRUE, entries |-> <<>>]

\* a detection as the parser returns it
Item(box, mask, label) == [box |-> box, mask |-> mask, label |-> label]

\* a non-empty string
Truthy(mask) == mask.prefix \/ mask.data # ""

\* the regex of extractSegmentsWithRegex matches inside one object: four
\* runs of digits in box_2d, then a mask that is a PNG data URL with a
\* payload
RegexMatches(tok) ==
    /\ tok.t = "obj"
    /\ Len(tok.box_2d) = 4
    /\ \A i \in 1..Len(tok.box_2d) : tok.box_2d[i].fin /\ tok.box_2d[i].v >= 0
    /\ tok.mask.prefix
    /\ tok.mask.data # ""

\* the first label in the snippet that starts at the match (the modelled
\* responses are shorter than the 400 characters of the snippet)
LabelFrom(text, i) ==
    LET labelled == { j \in i..Len(text) : text[j].label # NoLabel }
    IN  IF labelled = {} THEN NoLabel
        ELSE text[CHOOSE j \in labelled : \A k \in labelled : j <= k].label

extractSegmentsWithRegex(text) ==
    LET F[i \in 0..Len(text)] ==
          IF i = 0 THEN <<>>
          ELSE IF RegexMatches(text[i])
               THEN Append(F[i - 1],
                           Item(text[i].box_2d, text[i].mask, LabelFrom(text, i)))
               ELSE F[i - 1]
    IN  F[Len(text)]

\* the try block of parseSegmentationResponse: it throws when JSON.parse
\* throws and when an entry is null (reading a property of null)
StructuredParse(trimmedPayload) ==
    LET parsed == JSONparse(trimmedPayload)
        entries == parsed.entries
        mapped == [i \in 1..Len(entries) |->
                     Item(entries[i].box_2d, entries[i].mask, entries[i].label)]
    IN  IF parsed.threw \/ \E i \in 1..Len(entries) : entries[i].t = "null"
        THEN [threw |-> TRUE, items |-> <<>>]
        ELSE [threw |-> FALSE,
              items |-> FilterSeq(mapped,
                                  LAMBDA item : Len(item.box) = 4 /\ Truthy(item.mask))]

parseSegmentationResponse_FallbackOnEmpty(responseText) ==
    IF Len(responseText) = 0 THEN <<>>
    ELSE LET structured == StructuredParse(stripMarkdownFence(responseText))
         IN  IF structured.threw \/ Len(structured.items) = 0
             THEN extractSegmentsWithRegex(responseText)
             ELSE structured.items

parseSegmentationResponse(responseText) ==
    IF Len(responseText) = 0 THEN <<>>
    ELSE LET trimmedPayload == stripMarkdownFence(responseText)
             structured == StructuredParse(trimmedPayload)
         IN  IF structured.threw
             THEN extractSegmentsWithRegex(responseText)
             ELSE structured.items

\* the mask file segmentImage decodes from a detection's mask string: the
\* data URL prefix is added when it is missing
Decoded(items) ==
    [i \in 1..Len(items) |->
        [box |-> items[i].box,
         mask |-> RawMask(items[i].mask.data),
         label |-> items[i].label]]

\* ---------------------------------------------------------- segmentImage
\* steps 3 and 4 of segmentImage: validate the parsed entries, fail when
\* none is left, number the rest obj_0, obj_1, ...
\* resizeAndCompressImage: the canvas the JPEG is encoded from
resizeAndCompressImage_CapAt1024(file) ==
    IF file.w > 1024
    THEN [name |-> <<"compressed.jpg">>, w |-> 1024,
          h |-> RoundDiv(file.h * 1024, file.w)]
    ELSE [name |-> <<"compressed.jpg">>, w |-> file.w, h |-> file.h]

resizeAndCompressImage(file) ==
    LET width == file.w
        height == file.h
    IN  IF width > 1000
        THEN [name |-> <<"compressed.jpg">>, w |-> 1000,
              h |-> RoundDiv(height * 1000, width)]
        ELSE [name |-> <<"compressed.jpg">>, w |-> width, h |-> height]

segmentImage_NoFilter(entries) ==
    LET segments == entries
    IN  IF Len(segments) = 0
        THEN [ok |-> FALSE, err |-> NoObjectsMsg, objs |-> <<>>]
        ELSE [ok |-> TRUE, err |-> None,
              objs |-> [i \in 1..Len(segments) |->
                          [id |-> i - 1,
                           box |-> segments[i].box,
                           mask |-> segments[i].mask,
                           label |-> segments[i].label]]]

segmentImage(entries) ==
    LET segments == FilterSeq(entries, LAMBDA e : isValidNormalizedBox(e.box))
    IN  IF Len(segments) = 0
        THEN [ok |-> FALSE, err |-> NoObjectsMsg, objs |-> <<>>]
        ELSE [ok |-> TRUE, err |-> None,
              objs |-> [i \in 1..Len(segments) |->
                          [id |-> i - 1,
                           box |-> segments[i].box,
                           mask |-> segments[i].mask,
                           label |-> segments[i].label]]]

\* --------------------------------------------------- alignMasksToOriginal
\* the pixel box of one object on a targetWidth x targetHeight canvas
PixelBox(obj, targetWidth, targetHeight) ==
    LET ymin == obj.box[1].v
        xmin == obj.box[2].v
        ymax == obj.box[3].v
        xmax == obj.box[4].v
    IN  [x |-> RoundDiv(xmin * targetWidth, 1000),
         y |-> RoundDiv(ymin * targetHeight, 1000),
         width |-> Max2(1, RoundDiv((xmax - xmin) * targetWidth, 1000)),
         height |-> Max2(1, RoundDiv((ymax - ymin) * targetHeight, 1000))]

AlignRejects_Strict(obj, targetWidth, targetHeight) ==
    LET pb == PixelBox(obj, targetWidth, targetHeight)
    IN  pb.x > targetWidth \/ pb.y > targetHeight \/ pb.width <= 0 \/ pb.height <= 0

AlignRejects(obj, targetWidth, targetHeight) ==
    LET pb == PixelBox(obj, targetWidth, targetHeight)
    IN  pb.x >= targetWidth \/ pb.y >= targetHeight \/ pb.width <= 0 \/ pb.height <= 0

\* what the binarised box-local mask covers once it is drawn, stretched to
\* the pixel box, at (x, y): the whole pixel box when its grey level is above
\* the threshold, nothing otherwise
DrawnRect(mask, pb) ==
    IF mask.level > DEFAULT_MASK_THRESHOLD
    THEN <<pb.x, pb.y, pb.width, pb.height>>
    ELSE <<pb.x, pb.y, 0, 0>>

AlignOne_PixelBox(obj, targetWidth, targetHeight) ==
    LET pb == PixelBox(obj, targetWidth, targetHeight)
    IN  [obj EXCEPT !.box = Box(pb.y, pb.x, pb.y + pb.height, pb.x + pb.width),
                    !.mask = [src |-> obj.mask.src,
                              w |-> targetWidth,
                              h |-> targetHeight,
                              rect |-> DrawnRect(obj.mask, pb),
                              level |-> 255]]

AlignOne_BoxSized(obj, targetWidth, targetHeight) ==
    LET pb == PixelBox(obj, targetWidth, targetHeight)
    IN  [obj EXCEPT !.mask = [src |-> obj.mask.src,
                              w |-> pb.width,
                              h |-> pb.height,
                              rect |-> DrawnRect(obj.mask, pb),
                              level |-> 255]]

AlignOne_AtOrigin(obj, targetWidth, targetHeight) ==
    LET pb == PixelBox(obj, targetWidth, targetHeight)
    IN  [obj EXCEPT !.mask = [src |-> obj.mask.src,
                              w |-> targetWidth,
                              h |-> targetHeight,
                              rect |-> DrawnRect(obj.mask, [pb EXCEPT !.x = 0, !.y = 0]),
                              level |-> 255]]

\* the aligned object: a black targetWidth x targetHeight raster with the
\* binarised mask drawn at (x, y)
AlignOne(obj, targetWidth, targetHeight) ==
    LET pb == PixelBox(obj, targetWidth, targetHeight)
    IN  [obj EXCEPT !.mask = [src |-> obj.mask.src,
                              w |-> targetWidth,
                              h |-> targetHeight,
                              rect |-> DrawnRect(obj.mask, pb),
                              level |-> 255]]

alignMasksToOriginal(objects, originalImage) ==
    IF Len(objects) = 0 THEN [ok |-> TRUE, err |-> None, objs |-> objects]
    ELSE IF originalImage.w = 0 \/ originalImage.h = 0
    THEN [ok |-> FALSE, err |-> <<"Unable to read the original image dimensions">>, objs |-> <<>>]
    ELSE IF \E i \in 1..Len(objects) : AlignRejects(objects[i], originalImage.w, originalImage.h)
    THEN LET bad == CHOOSE i \in 1..Len(objects) :
                       /\ AlignRejects(objects[i], originalImage.w, originalImage.h)
                       /\ \A j \in 1..(i - 1) :
                            ~AlignRejects(objects[j], originalImage.w, originalImage.h)
         IN  [ok |-> FALSE, err |-> BadBoxMsg(objects[bad].id), objs |-> <<>>]
    ELSE [ok |-> TRUE, err |-> None,
          objs |-> [i \in 1..Len(objects) |->
                      AlignOne(objects[i], originalImage.w, originalImage.h)]]

\* -------------------------------------------------------- mask compositor
\* the part of a rectangle that lies on a w x h raster
Clip(r, w, h) ==
    LET x0 == Max2(r[1], 0)
        y0 == Max2(r[2], 0)
        x1 == IF r[1] + r[3] < w THEN r[1] + r[3] ELSE w
        y1 == IF r[2] + r[4] < h THEN r[2] + r[4] ELSE h
    IN  <<x0, y0, Max2(x1 - x0, 0), Max2(y1 - y0, 0)>>

\* drawImage(maskImg, 0, 0, width, height): the raster stretched to the
\* canvas (the identity for a raster of the canvas's size)
ScaleRect(r, fromW, fromH, toW, toH) ==
    << RoundDiv(r[1] * toW, fromW), RoundDiv(r[2] * toH, fromH),
       RoundDiv(r[3] * toW, fromW), RoundDiv(r[4] * toH, fromH) >>

\* the white rectangles of a binary mask (an image without dimensions has no
\* pixels, and drawImage draws nothing for it)
WhiteRects(mask) ==
    IF mask.w = 0 \/ mask.h = 0 THEN {}
    ELSE IF "rects" \in DOMAIN mask THEN mask.rects
    ELSE IF mask.level > DEFAULT_MASK_THRESHOLD THEN {Clip(mask.rect, mask.w, mask.h)}
    ELSE {}

\* the canvas after every mask was drawn on black with 'lighten'
Lightened(maskFiles, width, height) ==
    UNION { { ScaleRect(r, maskFiles[i].w, maskFiles[i].h, width, height) :
                r \in WhiteRects(maskFiles[i]) } : i \in 1..Len(maskFiles) }

\* loadImage rejects with the error event of an image that cannot be decoded
Undecodable(file) == file.src = "corrupt"

NoMaskFile == [src |-> "none", w |-> 0, h |-> 0, rects |-> {}]

Returned(file) == [ok |-> TRUE, err |-> None, file |-> file]
Thrown(err) == [ok |-> FALSE, err |-> err, file |-> NoMaskFile]

combineMaskFiles_LastWins(maskFiles) ==
    IF Len(maskFiles) = 1 THEN Returned(maskFiles[1])
    ELSE LET baseImage == maskFiles[1]
         IN  Returned([src |-> "combined-mask", w |-> baseImage.w, h |-> baseImage.h,
                       rects |-> Lightened(<<maskFiles[Len(maskFiles)]>>,
                                           baseImage.w, baseImage.h)])

combineMaskFiles_AlwaysComposite(maskFiles) ==
    LET baseImage == maskFiles[1]
    IN  Returned([src |-> "combined-mask", w |-> baseImage.w, h |-> baseImage.h,
                  rects |-> Lightened(maskFiles, baseImage.w, baseImage.h)])

\* combineMaskFiles: what it returns, or what it throws
combineMaskFiles(maskFiles) ==
    IF Len(maskFiles) = 1 THEN Returned(maskFiles[1])
    ELSE LET baseImage == maskFiles[1]
             width == baseImage.w
             height == baseImage.h
         IN  IF Undecodable(baseImage) THEN Thrown(ImageErrorEvent)
             ELSE IF width = 0 \/ height = 0 THEN Thrown(MaskDimensionsMsg)
             ELSE IF \E i \in 1..Len(maskFiles) : Undecodable(maskFiles[i])
             THEN Thrown(ImageErrorEvent)
             ELSE Returned([src |-> "combined-mask", w |-> width, h |-> height,
                            rects |-> Lightened(maskFiles, width, height)])

createFullImageMask_Black(imageFile) ==
    [src |-> "full-mask", w |-> imageFile.w, h |-> imageFile.h, rects |-> {}]

createFullImageMask(imageFile) ==
    [src |-> "full-mask", w |-> imageFile.w, h |-> imageFile.h,
     rects |-> {<<0, 0, imageFile.w, imageFile.h>>}]

\* ------------------------------------------------------------ hit-testing
calculateBoxArea(obj) ==
    LET ymin == obj.box[1].v
        xmin == obj.box[2].v
        ymax == obj.box[3].v
        xmax == obj.box[4].v
    IN  Max2((ymax - ymin) * (xmax - xmin), 0)

\* Array.prototype.sort with (a, b) => area(a) - area(b): stable, ascending
InsertByArea(sorted, obj) ==
    LET k == Cardinality({ i \in 1..Len(sorted) :
                             calculateBoxArea(sorted[i]) <= calculateBoxArea(obj) })
    IN  SubSeq(sorted, 1, k) \o <<obj>> \o SubSeq(sorted, k + 1, Len(sorted))

SortByArea(s) ==
    LET F[i \in 0..Len(s)] ==
          IF i = 0 THEN <<>> ELSE InsertByArea(F[i - 1], s[i])
    IN  F[Len(s)]

\* the filter predicate of handleClick / handleMouseMove, times 1000
BoxContains(obj, w, h, x, y) ==
    LET ymin == obj.box[1].v
        xmin == obj.box[2].v
        ymax == obj.box[3].v
        xmax == obj.box[4].v
        boxX == xmin * w
        boxY == ymin * h
        boxW == (xmax - xmin) * w
        boxH == (ymax - ymin) * h
    IN  /\ 1000 * x >= boxX /\ 1000 * x <= boxX + boxW
        /\ 1000 * y >= boxY /\ 1000 * y <= boxY + boxH

clickCandidates_Unsorted(objects, w, h, pt) ==
    FilterSeq(objects, LAMBDA obj : BoxContains(obj, w, h, pt[1], pt[2]))

clickCandidates(objects, w, h, pt) ==
    SortByArea(FilterSeq(objects, LAMBDA obj : BoxContains(obj, w, h, pt[1], pt[2])))

hoverCandidates_Unsorted(objects, w, h, pt) ==
    FilterSeq(objects, LAMBDA obj : BoxContains(obj, w, h, pt[1], pt[2]))

hoverCandidates(objects, w, h, pt) ==
    SortByArea(FilterSeq(objects, LAMBDA obj : BoxContains(obj, w, h, pt[1], pt[2])))

\* ------------------------------------------------------- selection update
\* the updater passed to setSelectedObjects by onToggleObject
onToggleObject_Replace(prev, object) ==
    IF \E i \in 1..Len(prev) : prev[i].id = object.id
    THEN FilterSeq(prev, LAMBDA item : item.id # object.id)
    ELSE <<object>>

onToggleObject_AlwaysAdd(prev, object) == Append(prev, object)

onToggleObject(prev, object) ==
    LET exists == \E i \in 1..Len(prev) : prev[i].id = object.id
    IN  IF exists
        THEN FilterSeq(prev, LAMBDA item : item.id # object.id)
        ELSE Append(prev, object)

onRemoveSelected(prev, id) == FilterSeq(prev, LAMBDA obj : obj.id # id)


\* ----------------------------------------------------------------- state
VARIABLES
    history,            \* App: File[]
    historyIndex,       \* App: index of the current image, -1 when empty
    prompt,             \* App: the edit instruction
    isLoading,          \* App: an edit request is pending
    error,              \* App: error shown instead of the editor
    editMode,           \* App: "precision" | "chat"
    segmentObjects,     \* App: the object list
    selectedObjects,    \* App: the selection set
    isSegmenting,       \* App: flag set by the segmentation handlers
    segmentationError,  \* App: message of the last failed segmentation
    hoveredId,          \* ObjectSelectCanvas: hovered object id
    pending,            \* handleImageUpload / handleResegment calls in flight
    editReq,            \* handleGenerate call in flight (its closure)
    box,                \* SpecBox: the validator's input
    boxOk,              \* SpecBox: the validator's answer
    doc,                \* SpecParse: what the segmentation model answers
    responseText,       \* SpecParse: response.text, the rendering of doc
    parseResult,        \* SpecParse: what parseSegmentationResponse returned
    alignInput,         \* SpecAlign: the objects handed to the aligner
    alignImage,         \* SpecAlign: the original image
    alignResult,        \* SpecAlign: what alignMasksToOriginal returned
    resizeInput,        \* SpecResize: the image handed to resizeAndCompressImage
    resizeResult,       \* SpecResize: the size of the canvas it encodes
    maskInput,          \* SpecCombine: the mask files handed to combineMaskFiles
    combineResult       \* SpecCombine: what combineMaskFiles returned or threw

appVars == <<history, historyIndex, prompt, isLoading, error, editMode,
             segmentObjects, selectedObjects, isSegmenting, segmentationError,
             hoveredId, pending, editReq>>

boxVars == <<box, boxOk>>

parseVars == <<doc, responseText, parseResult>>

alignVars == <<alignInput, alignImage, alignResult>>

resizeVars == <<resizeInput, resizeResult>>

combineVars == <<maskInput, combineResult>>

vars == <<history, historyIndex, prompt, isLoading, error, editMode,
          segmentObjects, selectedObjects, isSegmenting, segmentationError,
          hoveredId, pending, editReq, box, boxOk,
          doc, responseText, parseResult, alignInput, alignImage, alignResult,
          resizeInput, resizeResult, maskInput, combineResult>>

NoReq == <<>>
NoFile == [name |-> <<>>, w |-> 0, h |-> 0]

currentImage == IF historyIndex >= 0 /\ historyIndex < Len(history)
                THEN history[historyIndex + 1] ELSE NoFile
hasCurrentImage == historyIndex >= 0 /\ historyIndex < Len(history)

canUndo == historyIndex > 0
canRedo == historyIndex < Len(history) - 1

\* the isActive prop App passes to ObjectSelectCanvas
isActive == ~isLoading /\ ~isSegmenting

\* renderContent shows the editor only without an error and with an image
EditorShown == error = None /\ hasCurrentImage

\* renderImageSection mounts ObjectSelectCanvas in precision mode only
CanvasMounted == EditorShown /\ editMode = "precision"

AppInit ==
    /\ history = <<>>
    /\ historyIndex = -1
    /\ prompt = ""
    /\ isLoading = FALSE
    /\ error = None
    /\ editMode = "precision"
    /\ segmentObjects = <<>>
    /\ selectedObjects = <<>>
    /\ isSegmenting = FALSE
    /\ segmentationError = None
    /\ hoveredId = NoId
    /\ pending = <<>>
    /\ editReq = NoReq

\* the validator, the parser and the aligner are not called on their own
BoxIdle == box = <<>> /\ boxOk = "unused"
ParseIdle == doc = <<>> /\ responseText = <<>> /\ parseResult = <<>>
AlignIdle == alignInput = <<>> /\ alignImage = NoFile /\ alignResult = <<>>
ResizeIdle == resizeInput = NoFile /\ resizeResult = <<>>
CombineIdle == maskInput = <<>> /\ combineResult = <<>>

Init == AppInit /\ BoxIdle /\ ParseIdle /\ AlignIdle /\ ResizeIdle /\ CombineIdle

\* --------------------------------------------------- segmentation requests
\* a request issued now supersedes every request still in flight
Superseded(reqs) == [i \in 1..Len(reqs) |-> [reqs[i] EXCEPT !.latest = FALSE]]

NewRequest(file) == [file |-> file, latest |-> TRUE]

RemoveAt(s, i) == SubSeq(s, 1, i - 1) \o SubSeq(s, i + 1, Len(s))

\* handleImageUpload up to its first await
handleImageUpload(file) ==
    /\ error = None
    /\ Len(pending) < MaxPending
    /\ error' = None
    /\ history' = <<file>>
    /\ historyIndex' = 0
    /\ isSegmenting' = TRUE
    /\ segmentationError' = None
    /\ segmentObjects' = <<>>
    /\ selectedObjects' = <<>>
    /\ pending' = Append(Superseded(pending), NewRequest(file))
    /\ UNCHANGED <<prompt, isLoading, editMode, hoveredId, editReq, box, boxOk, parseVars, alignVars, resizeVars, combineVars>>

handleResegment_KeepsList ==
    /\ EditorShown
    /\ editMode = "precision"
    /\ Len(segmentObjects) > 0
    /\ ~isSegmenting
    /\ Len(pending) < MaxPending
    /\ isSegmenting' = TRUE
    /\ segmentationError' = None
    /\ selectedObjects' = <<>>
    /\ pending' = Append(Superseded(pending), NewRequest(currentImage))
    /\ UNCHANGED <<history, historyIndex, prompt, isLoading, error, editMode,
                   segmentObjects, hoveredId, editReq, box, boxOk, parseVars,
                   alignVars, resizeVars, combineVars>>

\* handleResegment up to its first await (EditPanel shows the button in
\* precision mode when there are objects and disables it while isSegmenting)
handleResegment ==
    /\ EditorShown
    /\ editMode = "precision"
    /\ Len(segmentObjects) > 0
    /\ ~isSegmenting
    /\ Len(pending) < MaxPending
    /\ isSegmenting' = TRUE
    /\ segmentationError' = None
    /\ segmentObjects' = <<>>
    /\ selectedObjects' = <<>>
    /\ pending' = Append(Superseded(pending), NewRequest(currentImage))
    /\ UNCHANGED <<history, historyIndex, prompt, isLoading, error, editMode,
                   hoveredId, editReq, box, boxOk, parseVars, alignVars, resizeVars, combineVars>>

SegmentationFailed_NoFinally(i, msg) ==
    /\ segmentationError' = msg
    /\ pending' = RemoveAt(pending, i)
    /\ UNCHANGED <<history, historyIndex, prompt, isLoading, error, editMode,
                   segmentObjects, selectedObjects, isSegmenting, hoveredId,
                   editReq, box, boxOk, parseVars, alignVars, resizeVars,
                   combineVars>>

\* catch and finally of handleImageUpload / handleResegment
SegmentationFailed(i, msg) ==
    /\ segmentationError' = msg
    /\ isSegmenting' = FALSE
    /\ pending' = RemoveAt(pending, i)
    /\ UNCHANGED <<history, historyIndex, prompt, isLoading, error, editMode,
                   segmentObjects, selectedObjects, hoveredId, editReq, box, boxOk, parseVars, alignVars, resizeVars, combineVars>>

\* The rest of handleImageUpload / handleResegment for request i, once
\* `await segmentImage(file)` and `await alignMasksToOriginal(objects, file)`
\* have settled: the service answered with the parsed entries resp, or the
\* call threw.  Nothing is written between the two awaits, so they are one
\* step.
SegmentationSettles(i) ==
    /\ i \in 1..Len(pending)
    /\ \/ \E resp \in Responses :
            LET objects == segmentImage(resp)
                alignedObjects == alignMasksToOriginal(objects.objs, pending[i].file)
            IN  IF ~objects.ok THEN SegmentationFailed(i, objects.err)
                ELSE IF ~alignedObjects.ok
                THEN SegmentationFailed(i, alignedObjects.err)
                ELSE /\ segmentObjects' = alignedObjects.objs
                     /\ isSegmenting' = FALSE
                     /\ pending' = RemoveAt(pending, i)
                     /\ UNCHANGED <<history, historyIndex, prompt, isLoading, error,
                                    editMode, selectedObjects, segmentationError,
                                    hoveredId, editReq, box, boxOk, parseVars, alignVars, resizeVars, combineVars>>
       \/ SegmentationFailed(i, TransportMsg)

\* ---------------------------------------------------- ObjectSelectCanvas
\* the canvas has the current image's natural size; pointer events come from
\* positions on it
OnCanvas(pt) == pt[1] < currentImage.w /\ pt[2] < currentImage.h

\* handleClick: canvas.width / height are the current image's natural size
handleClick(pt) ==
    /\ CanvasMounted
    /\ OnCanvas(pt)
    /\ UNCHANGED <<history, historyIndex, prompt, isLoading, error, editMode,
                   segmentObjects, isSegmenting, segmentationError, hoveredId,
                   pending, editReq, box, boxOk, parseVars, alignVars, resizeVars, combineVars>>
    /\ IF ~isActive
       THEN UNCHANGED selectedObjects
       ELSE LET candidateObjects ==
                  clickCandidates(segmentObjects, currentImage.w, currentImage.h, pt)
                clickedObject == candidateObjects[1]
            IN  IF Len(candidateObjects) > 0
                THEN selectedObjects' = onToggleObject(selectedObjects, clickedObject)
                ELSE UNCHANGED selectedObjects

handleMouseMove(pt) ==
    /\ CanvasMounted
    /\ OnCanvas(pt)
    /\ UNCHANGED <<history, historyIndex, prompt, isLoading, error, editMode,
                   segmentObjects, selectedObjects, isSegmenting, segmentationError,
                   pending, editReq, box, boxOk, parseVars, alignVars, resizeVars, combineVars>>
    /\ IF ~isActive
       THEN UNCHANGED hoveredId
       ELSE LET hoveredObject ==
                  hoverCandidates(segmentObjects, currentImage.w, currentImage.h, pt)
            IN  hoveredId' = IF Len(hoveredObject) > 0 THEN hoveredObject[1].id ELSE NoId

handleMouseLeave ==
    /\ CanvasMounted
    /\ hoveredId' = NoId
    /\ UNCHANGED <<history, historyIndex, prompt, isLoading, error, editMode,
                   segmentObjects, selectedObjects, isSegmenting, segmentationError,
                   pending, editReq, box, boxOk, parseVars, alignVars, resizeVars, combineVars>>

\* ------------------------------------------------------------- EditPanel
\* the chips and "clear all" exist in precision mode with a selection
onClearSelection ==
    /\ EditorShown
    /\ editMode = "precision"
    /\ Len(selectedObjects) > 0
    /\ selectedObjects' = <<>>
    /\ UNCHANGED <<history, historyIndex, prompt, isLoading, error, editMode,
                   segmentObjects, isSegmenting, segmentationError, hoveredId,
                   pending, editReq, box, boxOk, parseVars, alignVars, resizeVars, combineVars>>

RemoveSelected(id) ==
    /\ EditorShown
    /\ editMode = "precision"
    /\ id \in Ids(selectedObjects)
    /\ selectedObjects' = onRemoveSelected(selectedObjects, id)
    /\ UNCHANGED <<history, historyIndex, prompt, isLoading, error, editMode,
                   segmentObjects, isSegmenting, segmentationError, hoveredId,
                   pending, editReq, box, boxOk, parseVars, alignVars, resizeVars, combineVars>>

\* the textarea: shown in chat mode, and in precision mode with a selection;
\* disabled while isLoading
onPromptChange(p) ==
    /\ EditorShown
    /\ ~isLoading
    /\ editMode = "chat" \/ Len(selectedObjects) > 0
    /\ p # prompt
    /\ prompt' = p
    /\ UNCHANGED <<history, historyIndex, isLoading, error, editMode,
                   segmentObjects, selectedObjects, isSegmenting, segmentationError,
                   hoveredId, pending, editReq, box, boxOk, parseVars, alignVars, resizeVars, combineVars>>

\* leaving precision mode unmounts the canvas and drops its hover state
onEditModeChange(m) ==
    /\ EditorShown
    /\ m # editMode
    /\ editMode' = m
    /\ hoveredId' = NoId
    /\ UNCHANGED <<history, historyIndex, prompt, isLoading, error,
                   segmentObjects, selectedObjects, isSegmenting, segmentationError,
                   pending, editReq, box, boxOk, parseVars, alignVars, resizeVars, combineVars>>

\* ------------------------------------------------------------ edit request
\* handleGenerate up to its first await.  The error screen unmounts the
\* canvas.  The closure keeps the history, index, mode and selection of the
\* render the handler belongs to.
handleGenerate_LoadingBeforeChecks ==
    /\ EditorShown
    /\ ~isLoading
    /\ historyIndex + 1 < MaxHistory
    /\ IF ~hasCurrentImage
       THEN /\ error' = NoImageMsg
            /\ hoveredId' = NoId
            /\ isLoading' = TRUE
            /\ UNCHANGED editReq
       ELSE IF prompt = ""
       THEN /\ error' = NoPromptMsg
            /\ hoveredId' = NoId
            /\ isLoading' = TRUE
            /\ UNCHANGED editReq
       ELSE IF editMode = "precision" /\ Len(selectedObjects) = 0
       THEN /\ error' = NoSelectionMsg
            /\ hoveredId' = NoId
            /\ isLoading' = TRUE
            /\ UNCHANGED editReq
       ELSE /\ isLoading' = TRUE
            /\ error' = None
            /\ LET maskFile ==
                      IF editMode = "precision"
                      THEN combineMaskFiles([i \in 1..Len(selectedObjects) |->
                                               selectedObjects[i].mask])
                      ELSE Returned(createFullImageMask(currentImage))
               IN  editReq' = [image |-> currentImage,
                               history |-> history,
                               historyIndex |-> historyIndex,
                               editMode |-> editMode,
                               selectedObjects |-> selectedObjects,
                               maskFile |-> maskFile.file,
                               thrown |-> maskFile.err]
            /\ UNCHANGED hoveredId
    /\ UNCHANGED <<history, historyIndex, prompt, editMode, segmentObjects,
                   selectedObjects, isSegmenting, segmentationError, pending,
                   box, boxOk, parseVars, alignVars, resizeVars, combineVars>>

handleGenerate ==
    /\ EditorShown
    /\ ~isLoading
    /\ historyIndex + 1 < MaxHistory
    /\ IF ~hasCurrentImage
       THEN /\ error' = NoImageMsg
            /\ hoveredId' = NoId
            /\ UNCHANGED <<isLoading, editReq>>
       ELSE IF prompt = ""
       THEN /\ error' = NoPromptMsg
            /\ hoveredId' = NoId
            /\ UNCHANGED <<isLoading, editReq>>
       ELSE IF editMode = "precision" /\ Len(selectedObjects) = 0
       THEN /\ error' = NoSelectionMsg
            /\ hoveredId' = NoId
            /\ UNCHANGED <<isLoading, editReq>>
       ELSE /\ isLoading' = TRUE
            /\ error' = None
            /\ LET maskFile ==
                      IF editMode = "precision"
                      THEN combineMaskFiles([i \in 1..Len(selectedObjects) |->
                                               selectedObjects[i].mask])
                      ELSE Returned(createFullImageMask(currentImage))
               IN  editReq' = [image |-> currentImage,
                               history |-> history,
                               historyIndex |-> historyIndex,
                               editMode |-> editMode,
                               selectedObjects |-> selectedObjects,
                               maskFile |-> maskFile.file,
                               thrown |-> maskFile.err]
            /\ UNCHANGED hoveredId
    /\ UNCHANGED <<history, historyIndex, prompt, editMode, segmentObjects,
                   selectedObjects, isSegmenting, segmentationError, pending,
                   box, boxOk, parseVars, alignVars, resizeVars, combineVars>>

\* the image the edit service returns for a request
EditedImage(req) == [name |-> <<"edit">> \o req.image.name,
                     w |-> req.image.w, h |-> req.image.h]

\* addImageToHistory as the closure of handleGenerate sees it
addImageToHistory(req, newImageFile) ==
    LET newHistory == Append(SubSeq(req.history, 1, req.historyIndex + 1), newImageFile)
    IN  /\ history' = newHistory
        /\ historyIndex' = Len(newHistory) - 1
        /\ selectedObjects' = <<>>

\* the awaits of handleGenerate settle with an image: rest of try, finally
EditSucceeds ==
    /\ editReq # NoReq
    /\ editReq.thrown = None
    /\ addImageToHistory(editReq, EditedImage(editReq))
    /\ prompt' = ""
    /\ isLoading' = FALSE
    /\ editReq' = NoReq
    /\ UNCHANGED <<error, editMode, segmentObjects, isSegmenting,
                   segmentationError, hoveredId, pending, box, boxOk, parseVars, alignVars, resizeVars, combineVars>>

\* an await of handleGenerate throws: catch, finally (the error screen
\* unmounts the canvas)
EditFails ==
    /\ editReq # NoReq
    /\ error' = GenerateFailedMsg \o editReq.thrown
    /\ hoveredId' = NoId
    /\ isLoading' = FALSE
    /\ editReq' = NoReq
    /\ UNCHANGED <<history, historyIndex, prompt, editMode, segmentObjects,
                   selectedObjects, isSegmenting, segmentationError, pending,
                   box, boxOk, parseVars, alignVars, resizeVars, combineVars>>

\* ------------------------------------------------------------------- crop
\* handleApplyCrop with the crop the user completed in the crop tab (CropPanel
\* disables the button while isLoading and without a completed crop); the
\* handler belongs to the current render, and the canvas it exports has the
\* size of the crop times the device pixel ratio
handleApplyCrop(completedCrop) ==
    /\ EditorShown
    /\ ~isLoading
    /\ historyIndex + 1 < MaxHistory
    /\ IF completedCrop = NoCrop
       THEN /\ error' = NoCropMsg
            /\ hoveredId' = NoId
            /\ UNCHANGED <<history, historyIndex, selectedObjects>>
       ELSE LET pixelRatio == 1
                newImageFile == [name |-> <<"cropped">> \o currentImage.name,
                                 w |-> completedCrop.width * pixelRatio,
                                 h |-> completedCrop.height * pixelRatio]
            IN  /\ addImageToHistory([history |-> history,
                                      historyIndex |-> historyIndex], newImageFile)
                /\ UNCHANGED <<error, hoveredId>>
    /\ UNCHANGED <<prompt, isLoading, editMode, segmentObjects, isSegmenting,
                   segmentationError, pending, editReq, box, boxOk, parseVars,
                   alignVars, resizeVars, combineVars>>

\* ---------------------------------------------------------------- history
handleUndo_KeepSelection ==
    /\ EditorShown
    /\ canUndo
    /\ historyIndex' = historyIndex - 1
    /\ UNCHANGED <<history, prompt, isLoading, error, editMode, segmentObjects,
                   selectedObjects, isSegmenting, segmentationError, hoveredId,
                   pending, editReq, box, boxOk, parseVars, alignVars, resizeVars, combineVars>>

handleUndo ==
    /\ EditorShown
    /\ canUndo
    /\ historyIndex' = historyIndex - 1
    /\ selectedObjects' = <<>>
    /\ UNCHANGED <<history, prompt, isLoading, error, editMode, segmentObjects,
                   isSegmenting, segmentationError, hoveredId, pending, editReq,
                   box, boxOk, parseVars, alignVars, resizeVars, combineVars>>

handleRedo ==
    /\ EditorShown
    /\ canRedo
    /\ historyIndex' = historyIndex + 1
    /\ selectedObjects' = <<>>
    /\ UNCHANGED <<history, prompt, isLoading, error, editMode, segmentObjects,
                   isSegmenting, segmentationError, hoveredId, pending, editReq,
                   box, boxOk, parseVars, alignVars, resizeVars, combineVars>>

\* the Reset button is disabled unless canUndo
handleReset ==
    /\ EditorShown
    /\ canUndo
    /\ Len(history) > 0
    /\ historyIndex' = 0
    /\ error' = None
    /\ selectedObjects' = <<>>
    /\ UNCHANGED <<history, prompt, isLoading, editMode, segmentObjects,
                   isSegmenting, segmentationError, hoveredId, pending, editReq,
                   box, boxOk, parseVars, alignVars, resizeVars, combineVars>>

\* "Try Again" on the error screen
DismissError ==
    /\ error # None
    /\ error' = None
    /\ UNCHANGED <<history, historyIndex, prompt, isLoading, editMode,
                   segmentObjects, selectedObjects, isSegmenting, segmentationError,
                   hoveredId, pending, editReq, box, boxOk, parseVars, alignVars, resizeVars, combineVars>>

\* --------------------------------------------------------- specification
Next ==
    \/ \E file \in UploadFiles : handleImageUpload(file)
    \/ handleResegment
    \/ \E i \in 1..MaxPending : SegmentationSettles(i)
    \/ \E pt \in Points : handleClick(pt)
    \/ \E pt \in Points : handleMouseMove(pt)
    \/ handleMouseLeave
    \/ onClearSelection
    \/ \E id \in 0..2 : RemoveSelected(id)
    \/ \E p \in Prompts : onPromptChange(p)
    \/ \E m \in EditModes : onEditModeChange(m)
    \/ handleGenerate
    \/ EditSucceeds
    \/ EditFails
    \/ handleUndo
    \/ handleRedo
    \/ handleReset
    \/ DismissError

\* the editor while no crop is applied (the retouch tab)
Spec == Init /\ [][Next]_vars

\* The handlers that start or settle a call, and those that make a call
\* possible (a selection, a prompt, the mode).  Hovering, editing the
\* selection and moving through the history write none of isSegmenting,
\* isLoading, pending and editReq.
NextLive ==
    \/ \E file \in UploadFiles : handleImageUpload(file)
    \/ handleResegment
    \/ \E i \in 1..MaxPending : SegmentationSettles(i)
    \/ \E pt \in Points : handleClick(pt)
    \/ \E p \in Prompts : onPromptChange(p)
    \/ \E m \in EditModes : onEditModeChange(m)
    \/ handleGenerate
    \/ EditSucceeds
    \/ EditFails
    \/ DismissError

\* the remote services answer or fail every call: a pending segmentation
\* call and a pending edit call eventually settle
SpecLive ==
    /\ Init /\ [][NextLive]_vars
    /\ WF_vars(\E i \in 1..MaxPending : SegmentationSettles(i))
    /\ WF_vars(EditSucceeds \/ EditFails)

\* the editor with its crop tab
NextCrop ==
    \/ Next
    \/ \E completedCrop \in Crops : handleApplyCrop(completedCrop)

SpecCrop == Init /\ [][NextCrop]_vars

\* the handlers that read or write the history, with two files to upload
\* (the canvas and the selection handlers are left to Spec)
NextHistory ==
    \/ \E file \in {FileA, FileB} : handleImageUpload(file)
    \/ \E i \in 1..MaxPending : SegmentationSettles(i)
    \/ \E p \in Prompts : onPromptChange(p)
    \/ \E m \in EditModes : onEditModeChange(m)
    \/ handleGenerate
    \/ \E completedCrop \in Crops : handleApplyCrop(completedCrop)
    \/ EditSucceeds
    \/ EditFails
    \/ handleUndo
    \/ handleRedo
    \/ handleReset
    \/ DismissError

SpecHistory == Init /\ [][NextHistory]_vars


\* ------------------------------------------- specification of the validator
\* values a box of a parsed response may hold
BoxValues == { Num(-1), Num(0), Num(400), Num(500), Num(1000), Num(1001),
               NaN, PosInf, NegInf }

\* every 4-element box over BoxValues, and boxes of every other length up to
\* MaxBoxLen
BoxInputs ==
    [1..4 -> BoxValues]
      \cup UNION { [1..n -> {Num(0), Num(500)}] : n \in (0..MaxBoxLen) \ {4} }

InitBox ==
    /\ AppInit /\ ParseIdle /\ AlignIdle /\ ResizeIdle /\ CombineIdle
    /\ box \in BoxInputs
    /\ boxOk = "idle"

Validate ==
    /\ boxOk = "idle"
    /\ boxOk' = IF isValidNormalizedBox(box) THEN "valid" ELSE "invalid"
    /\ UNCHANGED <<history, historyIndex, prompt, isLoading, error, editMode,
                   segmentObjects, selectedObjects, isSegmenting, segmentationError,
                   hoveredId, pending, editReq, box, parseVars, alignVars, resizeVars, combineVars>>

NextBox == Validate

SpecBox == InitBox /\ [][NextBox]_vars

\* ---------------------------------------------- specification of the parser
\* the entries the segmentation model may answer with
DocEntries ==
    { Obj(Box(100, 100, 500, 500), DataUrl("AAA"), "cup"),
      Obj(Box(300, 300, 700, 700), RawB64("BBB"), "vase"),
      Obj(Box(500, 500, 400, 400), DataUrl("CCC"), NoLabel),
      Obj(<<Num(0), Num(0), Num(10)>>, DataUrl("DDD"), "three"),
      Obj(<<>>, DataUrl("EEE"), "nobox"),
      Obj(Box(0, 0, 1000, 1000), NoMask, "nomask"),
      ObjTicks(Box(0, 0, 500, 500), RawB64("FFF"), "ticks"),
      Tok("null") }

\* how the entries are laid out: a JSON array, one entry after the other
\* without brackets, an array inside a wrapper object, an array that lacks
\* its closing bracket
DocShapes == {"array", "bare", "wrapper", "truncated"}

\* no fence, a fence tagged json, a bare fence, a fence tagged json that is
\* never closed
DocFences == {"none", "json", "plain", "open"}

\* an answer: its entries, their layout, the fence around them, and whether
\* commentary precedes and follows
Docs ==
    [entries : UNION { [1..n -> DocEntries] : n \in 0..MaxEntries },
     shape : DocShapes,
     fence : DocFences,
     prose : BOOLEAN]

\* e1 , e2 , ... en
CommaSeparated(entries) ==
    [k \in 1..(IF Len(entries) = 0 THEN 0 ELSE 2 * Len(entries) - 1) |->
        IF k % 2 = 1 THEN entries[(k + 1) \div 2] ELSE Tok(",")]

\* e1 <newline> e2 <newline> ... en
LineSeparated(entries) ==
    [k \in 1..(IF Len(entries) = 0 THEN 0 ELSE 2 * Len(entries) - 1) |->
        IF k % 2 = 1 THEN entries[(k + 1) \div 2] ELSE Tok("ws")]

\* the text of an answer
Render(d) ==
    LET body == CASE d.shape = "array" ->
                       <<Tok("[")>> \o CommaSeparated(d.entries) \o <<Tok("]")>>
                  [] d.shape = "bare" -> LineSeparated(d.entries)
                  [] d.shape = "wrapper" ->
                       <<Tok("wrap[")>> \o CommaSeparated(d.entries) \o <<Tok("]wrap")>>
                  [] d.shape = "truncated" ->
                       <<Tok("[")>> \o CommaSeparated(d.entries)
        opening == CASE d.fence \in {"json", "open"} -> <<Tok("fence_json"), Tok("ws")>>
                     [] d.fence = "plain" -> <<Tok("fence"), Tok("ws")>>
                     [] d.fence = "none" -> <<>>
        closing == IF d.fence \in {"json", "plain"} THEN <<Tok("ws"), Tok("fence")>> ELSE <<>>
        fenced == opening \o body \o closing
    IN  IF d.prose
        THEN <<Tok("prose"), Tok("ws")>> \o fenced \o <<Tok("ws"), Tok("prose")>>
        ELSE IF fenced = <<>> THEN <<>>
        ELSE fenced \o <<Tok("ws")>>

NotParsed == [done |-> FALSE, items |-> <<>>]

InitParse ==
    /\ AppInit /\ BoxIdle /\ AlignIdle /\ ResizeIdle /\ CombineIdle
    /\ doc \in Docs
    /\ responseText = Render(doc)
    /\ parseResult = NotParsed

\* segmentImage hands response.text to the parser
ParseResponse ==
    /\ ~parseResult.done
    /\ parseResult' = [done |-> TRUE, items |-> parseSegmentationResponse(responseText)]
    /\ UNCHANGED <<history, historyIndex, prompt, isLoading, error, editMode,
                   segmentObjects, selectedObjects, isSegmenting, segmentationError,
                   hoveredId, pending, editReq, box, boxOk, doc, responseText,
                   alignVars, resizeVars, combineVars>>

NextParse == ParseResponse

SpecParse == InitParse /\ [][NextParse]_vars

\* --------------------------------------------- specification of the aligner
\* boxes of validated entries
AlignBoxes ==
    { Box(100, 100, 500, 500), Box(0, 0, 1000, 1000), Box(999, 999, 1000, 1000),
      Box(1, 1, 1000, 1000), Box(998, 998, 999, 999) }

\* box-local masks of different sizes; the last one is dark grey
AlignMasks ==
    { LocalMask("m64", 64, 64, 255), LocalMask("m32", 32, 48, 255),
      LocalMask("dark", 64, 64, 100) }

AlignEntries ==
    { [box |-> b, mask |-> m, label |-> "thing"] : b \in AlignBoxes, m \in AlignMasks }

\* original images; the last one has no readable size
AlignImages ==
    { [name |-> <<"big">>, w |-> 800, h |-> 600],
      [name |-> <<"a">>, w |-> 400, h |-> 300],
      [name |-> <<"odd">>, w |-> 500, h |-> 300],
      [name |-> <<"tiny">>, w |-> 3, h |-> 2],
      [name |-> <<"broken">>, w |-> 0, h |-> 0] }

NotAligned == [done |-> FALSE, ok |-> FALSE, err |-> None, objs |-> <<>>]

\* the aligner is handed what segmentImage returned for the same file
InitAlign ==
    /\ AppInit /\ BoxIdle /\ ParseIdle /\ ResizeIdle /\ CombineIdle
    /\ \E entries \in UNION { [1..n -> AlignEntries] : n \in 0..MaxObjects } :
          alignInput = segmentImage(entries).objs
    /\ alignImage \in AlignImages
    /\ alignResult = NotAligned

AlignMasksCall ==
    /\ ~alignResult.done
    /\ LET aligned == alignMasksToOriginal(alignInput, alignImage)
       IN  alignResult' = [done |-> TRUE, ok |-> aligned.ok,
                           err |-> aligned.err, objs |-> aligned.objs]
    /\ UNCHANGED <<history, historyIndex, prompt, isLoading, error, editMode,
                   segmentObjects, selectedObjects, isSegmenting, segmentationError,
                   hoveredId, pending, editReq, box, boxOk, parseVars,
                   alignInput, alignImage, resizeVars, combineVars>>

NextAlign == AlignMasksCall

SpecAlign == InitAlign /\ [][NextAlign]_vars

\* ----------------------------------- specification of the pre-resize step
\* natural widths and heights of uploaded images: landscape, portrait and
\* square ones, around the 1000 pixel limit
ResizeDims == {1, 2, 500, 999, 1000, 1001, 1500, 2000, 2001, 2002, 3000, 4000}

NotResized == [done |-> FALSE, w |-> 0, h |-> 0]

InitResize ==
    /\ AppInit /\ BoxIdle /\ ParseIdle /\ AlignIdle /\ CombineIdle
    /\ \E w \in ResizeDims, h \in ResizeDims :
          resizeInput = [name |-> <<"upload">>, w |-> w, h |-> h]
    /\ resizeResult = NotResized

\* segmentImage resizes the file before it encodes and sends it
ResizeCall ==
    /\ ~resizeResult.done
    /\ LET compressedFile == resizeAndCompressImage(resizeInput)
       IN  resizeResult' = [done |-> TRUE, w |-> compressedFile.w, h |-> compressedFile.h]
    /\ UNCHANGED <<history, historyIndex, prompt, isLoading, error, editMode,
                   segmentObjects, selectedObjects, isSegmenting, segmentationError,
                   hoveredId, pending, editReq, box, boxOk, parseVars, alignVars,
                   resizeInput, combineVars>>

NextResize == ResizeCall

SpecResize == InitResize /\ [][NextResize]_vars

\* -------------------------------------- specification of the compositor
\* mask files handleGenerate may hand over: two aligned masks of a 400 x 300
\* image, an image that decodes without dimensions, and a file that does not
\* decode
CombineMasks ==
    { [src |-> "m0", w |-> 400, h |-> 300, rect |-> <<40, 30, 160, 120>>, level |-> 255],
      [src |-> "m1", w |-> 400, h |-> 300, rect |-> <<120, 90, 160, 120>>, level |-> 255],
      [src |-> "empty", w |-> 0, h |-> 0, rect |-> <<0, 0, 0, 0>>, level |-> 255],
      [src |-> "corrupt", w |-> 0, h |-> 0, rect |-> <<0, 0, 0, 0>>, level |-> 255] }

NotCombined == [done |-> FALSE, ok |-> FALSE, err |-> None, file |-> NoMaskFile]

InitCombine ==
    /\ AppInit /\ BoxIdle /\ ParseIdle /\ AlignIdle /\ ResizeIdle
    /\ maskInput \in UNION { [1..n -> CombineMasks] : n \in 1..MaxMasks }
    /\ combineResult = NotCombined

\* handleGenerate hands the masks of the selected objects to combineMaskFiles
CombineCall ==
    /\ ~combineResult.done
    /\ LET maskFile == combineMaskFiles(maskInput)
       IN  combineResult' = [done |-> TRUE, ok |-> maskFile.ok,
                             err |-> maskFile.err, file |-> maskFile.file]
    /\ UNCHANGED <<history, historyIndex, prompt, isLoading, error, editMode,
                   segmentObjects, selectedObjects, isSegmenting, segmentationError,
                   hoveredId, pending, editReq, box, boxOk, parseVars, alignVars,
                   resizeVars, maskInput>>

NextCombine == CombineCall

SpecCombine == InitCombine /\ [][NextCombine]_vars

\* ------------------------------------------------------------ properties
\* what the data model requires of a box: four finite values in [0,1000],
\* ymin < ymax and xmin < xmax
UsableBox(b) ==
    /\ Len(b) = 4
    /\ \A i \in 1..Len(b) : b[i].fin /\ b[i].v >= 0 /\ b[i].v <= 1000
    /\ b[1].v < b[3].v
    /\ b[2].v < b[4].v

\* the pointer lies inside the object's box on a w x h canvas
PointInBox(obj, w, h, pt) ==
    /\ obj.box[2].v * w <= 1000 * pt[1] /\ 1000 * pt[1] <= obj.box[4].v * w
    /\ obj.box[1].v * h <= 1000 * pt[2] /\ 1000 * pt[2] <= obj.box[3].v * h

NormalizedArea(obj) == (obj.box[3].v - obj.box[1].v) * (obj.box[4].v - obj.box[2].v)

\* the objects of the object list whose box contains the pointer
Containing(pt) ==
    { o \in Range(segmentObjects) : PointInBox(o, currentImage.w, currentImage.h, pt) }

SmallestContaining(pt) ==
    { o \in Containing(pt) : \A o2 \in Containing(pt) : NormalizedArea(o) <= NormalizedArea(o2) }

NoDuplicateIds(s) == \A i, j \in 1..Len(s) : s[i].id = s[j].id => i = j

RequestInFlight == pending # <<>> \/ editReq # NoReq

\* C1: a segmentation result that resolves after a newer request has started
\* is never applied: while the newest request is still in flight, the object
\* list, the segmentation error and the segmenting flag are those the newest
\* request set when it started.
C1_StaleResultNeverApplied ==
    (\E i \in 1..Len(pending) : pending[i].latest)
        => (isSegmenting /\ segmentObjects = <<>> /\ segmentationError = None)

\* C2: while a segmentation or edit request is pending, a canvas click or a
\* pointer move changes neither the selection set nor the hover id.
C2_NoInteractionWhilePending ==
    [][ \A pt \in Points :
          ((handleClick(pt) \/ handleMouseMove(pt)) /\ RequestInFlight)
             => UNCHANGED <<selectedObjects, hoveredId>> ]_vars

\* C3: the selection set is empty right after an upload, a committed edit, an
\* effective undo and an effective redo, whatever it was before.
C3_SelectionCleared ==
    [][ ( \/ \E file \in UploadFiles : handleImageUpload(file)
          \/ EditSucceeds
          \/ handleUndo
          \/ handleRedo )
          => selectedObjects' = <<>> ]_vars

\* an undo has moved the index below the end of a two-image history, the
\* objects are still there and nothing is selected
C3_Witness ==
    /\ Len(history) = 2
    /\ historyIndex = 0
    /\ Len(segmentObjects) > 0
    /\ selectedObjects = <<>>

\* C4: isValidNormalizedBox accepts exactly the boxes with four finite values
\* in [0,1000], ymin < ymax and xmin < xmax; [0,0,0,0] and [500,500,400,400]
\* are rejected.
C4_ValidatorExact ==
    boxOk \in {"valid", "invalid"} =>
        /\ (boxOk = "valid") <=> UsableBox(box)
        /\ box \in {Box(0, 0, 0, 0), Box(500, 500, 400, 400)} => boxOk = "invalid"

C4_Witness == boxOk = "valid" /\ box = Box(0, 400, 1000, 1000)

\* whatever the service answers, the objects segmentImage hands on have
\* usable boxes
AnswersValidated ==
    \A resp \in Responses :
       LET objects == segmentImage(resp)
       IN  objects.ok =>
             \A k \in 1..Len(objects.objs) : UsableBox(objects.objs[k].box)

\* C5: every object of the object list, and every object handed to
\* alignMasksToOriginal for a request in flight whatever the service answers,
\* has a box with four values in [0,1000], ymin < ymax and xmin < xmax.
C5_OnlyValidatedBoxes ==
    /\ \A i \in 1..Len(segmentObjects) : UsableBox(segmentObjects[i].box)
    /\ pending # <<>> => AnswersValidated

\* a three-entry response with one zero-area box was applied as two objects
\* while another request is in flight
C5_Witness ==
    /\ Len(segmentObjects) = 2
    /\ segmentObjects[1].mask.src = "n0"
    /\ segmentObjects[2].mask.src = "n2"
    /\ pending # <<>>

C7_ToggleTwiceIsIdentity ==
    \A i \in 1..Len(segmentObjects) :
        Ids(onToggleObject(onToggleObject(selectedObjects, segmentObjects[i]),
                           segmentObjects[i]))
          = Ids(selectedObjects)

\* one of two objects is selected: toggling the selected one removes and
\* re-adds it, toggling the other adds and removes it
C7_Witness ==
    /\ Len(selectedObjects) = 1
    /\ Len(segmentObjects) = 2
    /\ selectedObjects[1] \in Range(segmentObjects)

\* C8: no two entries of the selection set have the same id.
C8_SelectionDeduplicated == NoDuplicateIds(selectedObjects)

\* two entries, one of them an object of a superseded run whose id is also
\* in the current object list
C8_Witness ==
    /\ Len(selectedObjects) = 2
    /\ \E i \in 1..Len(selectedObjects) :
          /\ selectedObjects[i] \notin Range(segmentObjects)
          /\ selectedObjects[i].id \in Ids(segmentObjects)

C10_HoverOnly ==
    [][ /\ \A pt \in Points :
             handleMouseMove(pt) =>
                /\ UNCHANGED <<selectedObjects, segmentObjects>>
                /\ isActive =>
                     LET candidateObjects ==
                           clickCandidates(segmentObjects, currentImage.w, currentImage.h, pt)
                     IN  /\ Len(candidateObjects) > 0 => hoveredId' = candidateObjects[1].id
                         /\ Len(candidateObjects) = 0 => hoveredId' = NoId
                         /\ Containing(pt) = {} => hoveredId' = NoId
        /\ handleMouseLeave =>
             (hoveredId' = NoId /\ UNCHANGED <<selectedObjects, segmentObjects>>) ]_vars

\* an object is hovered that is not selected while another one is
C10_Witness ==
    /\ hoveredId # NoId
    /\ selectedObjects # <<>>
    /\ hoveredId \notin Ids(selectedObjects)
    /\ hoveredId \in Ids(segmentObjects)

\* C11: segmentImage fails with the no-objects error exactly when no parsed
\* entry has a valid box; the parser returns the empty list for an empty
\* response text, and segmentImage then fails the same way; whenever the
\* no-objects error is recorded the object list is empty.
C11_NoObjectsDetected ==
    /\ parseSegmentationResponse(<<>>) = <<>>
    /\ segmentImage(Decoded(parseSegmentationResponse(<<>>))).err = NoObjectsMsg
    /\ \A resp \in Responses :
          (~segmentImage(resp).ok /\ segmentImage(resp).err = NoObjectsMsg)
             <=> (\A k \in 1..Len(resp) : ~UsableBox(resp[k].box))
    /\ segmentationError = NoObjectsMsg => segmentObjects = <<>>

\* an entry the structured path keeps: an object with a 4-element box and a
\* non-empty mask
WellFormedEntry(e) == e.t = "obj" /\ Len(e.box_2d) = 4 /\ e.mask # NoMask

\* the text handed to JSON.parse is the JSON of the answer: the entries are
\* laid out as one JSON value, commentary (if any) is outside a closed fence,
\* and no string of the answer holds a fence
PayloadIsJson(d) ==
    /\ d.shape \in {"array", "wrapper"} \/ (d.shape = "bare" /\ Len(d.entries) = 1)
    /\ d.fence \in {"json", "plain"} \/ ~d.prose
    /\ \A i \in 1..Len(d.entries) : ~d.entries[i].ticks

\* the detections of the entries that satisfy Keep, in order
Detections(entries, Keep(_)) ==
    LET kept == SelectSeq(entries, Keep)
    IN  [i \in 1..Len(kept) |->
           [box |-> kept[i].box_2d, mask |-> kept[i].mask, label |-> kept[i].label]]

\* box_2d of four non-negative integers followed by a PNG data URL
MatchesPattern(e) ==
    /\ e.t = "obj"
    /\ Len(e.box_2d) = 4
    /\ \A i \in 1..Len(e.box_2d) : e.box_2d[i].fin /\ e.box_2d[i].v >= 0
    /\ e.mask.prefix /\ e.mask.data # ""

BoxesAndMasks(items) == [i \in 1..Len(items) |-> <<items[i].box, items[i].mask>>]

C13_ParserRoundTrip ==
    ( /\ parseResult.done
      /\ doc.shape = "array"
      /\ ~doc.prose
      /\ doc.fence \in {"none", "json", "plain"}
      /\ \A i \in 1..Len(doc.entries) : WellFormedEntry(doc.entries[i]) )
    => parseResult.items = Detections(doc.entries, LAMBDA e : TRUE)


\* the pixel (px, py) of the raster is white
Opaque(mask, px, py) ==
    /\ 0 <= px /\ px < mask.w
    /\ 0 <= py /\ py < mask.h
    /\ \E r \in WhiteRects(mask) :
          /\ r[1] <= px /\ px < r[1] + r[3]
          /\ r[2] <= py /\ py < r[2] + r[4]

\* n / d rounded to the nearest integer, a half rounded up
Rounded(n, d) ==
    LET whole == n \div d
    IN  IF 2 * (n - whole * d) >= d THEN whole + 1 ELSE whole

\* the pixel box C16 states for a box on a W x H target
StatedX(b, W) == Rounded(b[2].v * W, 1000)
StatedY(b, H) == Rounded(b[1].v * H, 1000)
StatedWidth(b, W) ==
    IF Rounded((b[4].v - b[2].v) * W, 1000) < 1 THEN 1 ELSE Rounded((b[4].v - b[2].v) * W, 1000)
StatedHeight(b, H) ==
    IF Rounded((b[3].v - b[1].v) * H, 1000) < 1 THEN 1 ELSE Rounded((b[3].v - b[1].v) * H, 1000)

\* the stated pixel box lies in [0, W] x [0, H]
InsideCanvas(b, W, H) ==
    /\ 0 <= StatedX(b, W) /\ StatedX(b, W) + StatedWidth(b, W) <= W
    /\ 0 <= StatedY(b, H) /\ StatedY(b, H) + StatedHeight(b, H) <= H

\* the call went past the empty-list and unreadable-size exits
AlignAttempted ==
    alignResult.done /\ Len(alignInput) > 0 /\ alignImage.w > 0 /\ alignImage.h > 0

\* pixels around the corners of the modelled pixel boxes and canvases
SampleXs == {0, 1, 2, 3, 79, 80, 399, 400, 401, 498, 499, 500, 798, 799, 800}
SampleYs == {0, 1, 2, 59, 60, 299, 300, 301, 598, 599, 600}

\* C14: every aligned object has the id, the box (still four values in
\* [0,1000]) and the label of the input object at the same position.
C14_AlignKeepsIdBoxLabel ==
    (alignResult.done /\ alignResult.ok) =>
        /\ Len(alignResult.objs) = Len(alignInput)
        /\ \A i \in 1..Len(alignInput) :
              /\ alignResult.objs[i].id = alignInput[i].id
              /\ alignResult.objs[i].box = alignInput[i].box
              /\ UsableBox(alignResult.objs[i].box)
              /\ alignResult.objs[i].label = alignInput[i].label

\* two objects were aligned onto the 800 x 600 image and their masks changed
C14_Witness ==
    /\ alignResult.done /\ alignResult.ok
    /\ alignImage.w = 800
    /\ Len(alignResult.objs) = 2
    /\ alignResult.objs[1].box = Box(100, 100, 500, 500)
    /\ alignResult.objs[1].mask # alignInput[1].mask
    /\ alignResult.objs[2].mask # alignInput[2].mask

\* C15: every mask one call returns has the original image's width and
\* height, whatever the sizes of the input masks.
C15_AlignedMaskDimensions ==
    (alignResult.done /\ alignResult.ok) =>
        \A i \in 1..Len(alignResult.objs) :
            /\ alignResult.objs[i].mask.w = alignImage.w
            /\ alignResult.objs[i].mask.h = alignImage.h

\* a 64 x 64 and a 32 x 48 input mask came back with the image's size
C15_Witness ==
    /\ alignResult.done /\ alignResult.ok
    /\ Len(alignInput) = 2
    /\ alignInput[1].mask.w = 64
    /\ alignInput[2].mask.w = 32
    /\ alignResult.objs[1].mask.w = alignResult.objs[2].mask.w
    /\ alignResult.objs[1].mask.h = alignResult.objs[2].mask.h
    /\ alignResult.objs[2].mask.w = 500

C17_OpaqueOnlyInPixelBox ==
    (alignResult.done /\ alignResult.ok) =>
        \A i \in 1..Len(alignInput) : \A px \in SampleXs : \A py \in SampleYs :
            LET b == alignInput[i].box
                W == alignImage.w
                H == alignImage.h
                inRect == /\ StatedX(b, W) <= px /\ px < StatedX(b, W) + StatedWidth(b, W)
                          /\ StatedY(b, H) <= py /\ py < StatedY(b, H) + StatedHeight(b, H)
                onCanvas == px < W /\ py < H
                white == Opaque(alignResult.objs[i].mask, px, py)
            IN  /\ white => (inRect /\ onCanvas)
                /\ alignInput[i].mask.level > DEFAULT_MASK_THRESHOLD =>
                      (white <=> (inRect /\ onCanvas))
                /\ ( /\ W = 800 /\ H = 600 /\ b = Box(100, 100, 500, 500)
                     /\ alignInput[i].mask.level > DEFAULT_MASK_THRESHOLD )
                   => (white <=> (80 <= px /\ px < 400 /\ 60 <= py /\ py < 300))

\* the box [100,100,500,500] with a light mask was aligned onto 800 x 600
C17_Witness ==
    /\ alignResult.done /\ alignResult.ok
    /\ alignImage.w = 800 /\ alignImage.h = 600
    /\ Len(alignInput) = 1
    /\ alignInput[1].box = Box(100, 100, 500, 500)
    /\ alignInput[1].mask.level = 255
    /\ Opaque(alignResult.objs[1].mask, 80, 60)
    /\ Opaque(alignResult.objs[1].mask, 399, 299)
    /\ ~Opaque(alignResult.objs[1].mask, 400, 299)
    /\ ~Opaque(alignResult.objs[1].mask, 79, 60)

\* C18: when an object of the batch is rejected, alignMasksToOriginal fails
\* with the error that names a rejected object and returns no object; whenever
\* that error is recorded the object list is empty.
C18_AlignmentAtomic ==
    /\ \A resp \in Responses :
          LET segmented == segmentImage(resp).objs
              aligned == alignMasksToOriginal(segmented, FileA)
              rejected == { i \in 1..Len(segmented) :
                              \/ StatedX(segmented[i].box, FileA.w) >= FileA.w
                              \/ StatedY(segmented[i].box, FileA.h) >= FileA.h }
          IN  rejected # {} =>
                /\ ~aligned.ok
                /\ aligned.objs = <<>>
                /\ \E i \in rejected : aligned.err = BadBoxMsg(segmented[i].id)
    /\ (\E id \in 0..2 : segmentationError = BadBoxMsg(id)) => segmentObjects = <<>>


\* the pixels next to the corners of the white rectangles of some masks
CornerXs(masks) ==
    UNION { UNION { {r[1] - 1, r[1], r[1] + r[3] - 1, r[1] + r[3]} : r \in WhiteRects(masks[i]) }
              : i \in 1..Len(masks) }

CornerYs(masks) ==
    UNION { UNION { {r[2] - 1, r[2], r[2] + r[4] - 1, r[2] + r[4]} : r \in WhiteRects(masks[i]) }
              : i \in 1..Len(masks) }

SameSize(masks) ==
    \A i, j \in 1..Len(masks) : masks[i].w = masks[j].w /\ masks[i].h = masks[j].h

Reversed(s) == [i \in 1..Len(s) |-> s[Len(s) + 1 - i]]

\* the masks of the objects a precision edit in flight was started with
SelectedMasks == [i \in 1..Len(editReq.selectedObjects) |-> editReq.selectedObjects[i].mask]

PrecisionEditInFlight == editReq # NoReq /\ editReq.editMode = "precision"

\* C19: the mask a precision edit with two or more selected objects, whose
\* masks have the same size, sends is white on a pixel exactly when the
\* aligned mask of at least one selected object is white there, and combining the same masks in the reverse order
\* gives the same pixels.
C19_CompositorUnion ==
    (PrecisionEditInFlight /\ Len(SelectedMasks) >= 2 /\ SameSize(SelectedMasks)) =>
        LET samples == CornerXs(SelectedMasks) \X CornerYs(SelectedMasks)
            sent == { p \in samples : Opaque(editReq.maskFile, p[1], p[2]) }
            reversed == combineMaskFiles(Reversed(SelectedMasks)).file
        IN  /\ sent = { p \in samples :
                          \E i \in 1..Len(SelectedMasks) : Opaque(SelectedMasks[i], p[1], p[2]) }
            /\ sent = { p \in samples : Opaque(reversed, p[1], p[2]) }

\* an edit is in flight for two selected objects whose masks overlap in part:
\* a pixel of the first only, one of the second only and one of neither
C19_Witness ==
    /\ PrecisionEditInFlight
    /\ Len(SelectedMasks) = 2
    /\ \E px \in CornerXs(SelectedMasks) : \E py \in CornerYs(SelectedMasks) :
          Opaque(SelectedMasks[1], px, py) /\ ~Opaque(SelectedMasks[2], px, py)
    /\ \E px \in CornerXs(SelectedMasks) : \E py \in CornerYs(SelectedMasks) :
          ~Opaque(SelectedMasks[1], px, py) /\ Opaque(SelectedMasks[2], px, py)
    /\ \E px \in CornerXs(SelectedMasks) : \E py \in CornerYs(SelectedMasks) :
          /\ px >= 0 /\ py >= 0
          /\ ~Opaque(editReq.maskFile, px, py)

\* C20: the mask a precision edit with exactly one selected object sends is
\* that object's mask file itself.
C20_SinglePassthrough ==
    (PrecisionEditInFlight /\ Len(SelectedMasks) = 1) =>
        editReq.maskFile = SelectedMasks[1]

\* an edit is in flight for one selected object of the object list
C20_Witness ==
    /\ PrecisionEditInFlight
    /\ Len(editReq.selectedObjects) = 1
    /\ editReq.selectedObjects[1] \in Range(segmentObjects)
    /\ editReq.maskFile.src = "n2"

\* ------------------------------------------------- whole-image (chat) mask
ChatEditInFlight == editReq # NoReq /\ editReq.editMode = "chat"

\* pixels of a w x h raster: its corners, its centre and the corners of the
\* white rectangles of the masks given
PixelsToProbe(masks, w, h) ==
    { p \in ({0, w \div 2, w - 1} \cup CornerXs(masks)) \X
            ({0, h \div 2, h - 1} \cup CornerYs(masks)) :
        0 <= p[1] /\ p[1] < w /\ 0 <= p[2] /\ p[2] < h }

\* C21: the mask a whole-image (chat) edit sends has the pixel dimensions of
\* the image being edited and is white on every pixel, whatever the selection
\* holds.
C21_WholeImageMask ==
    ChatEditInFlight =>
        /\ editReq.maskFile.w = editReq.image.w
        /\ editReq.maskFile.h = editReq.image.h
        /\ editReq.image.w > 0 /\ editReq.image.h > 0
        /\ \A p \in PixelsToProbe(SelectedMasks, editReq.image.w, editReq.image.h) :
              Opaque(editReq.maskFile, p[1], p[2])

\* a chat edit is in flight although an object is selected whose own mask is
\* black on some pixel of the image
C21_Witness ==
    /\ ChatEditInFlight
    /\ Len(editReq.selectedObjects) > 0
    /\ \E p \in PixelsToProbe(SelectedMasks, editReq.image.w, editReq.image.h) :
          /\ ~Opaque(SelectedMasks[1], p[1], p[2])
          /\ Opaque(editReq.maskFile, p[1], p[2])



IsOneRun(list) ==
    \E resp \in Responses :
       LET kept == SelectSeq(resp, LAMBDA e : UsableBox(e.box))
       IN  /\ Len(list) = Len(kept)
           /\ \A j \in 1..Len(list) :
                 /\ list[j].id = j - 1
                 /\ list[j].box = kept[j].box
                 /\ list[j].label = kept[j].label
                 /\ list[j].mask.src = kept[j].mask.src

\* C23: a step that starts a segmentation call leaves the object list empty,
\* and the only other steps that change the list are those in which a call
\* settles; the list is then exactly the validated entries of one answer,
\* with the ids 0..k-1 in order, and nothing of the list before the step.
C23_ListReplaced ==
    [][ /\ Len(pending') > Len(pending) => segmentObjects' = <<>>
        /\ segmentObjects' # segmentObjects =>
              \/ Len(pending') > Len(pending)
              \/ /\ Len(pending') < Len(pending)
                 /\ segmentObjects' # <<>>
                 /\ IsOneRun(segmentObjects')
                 /\ NoDuplicateIds(segmentObjects') ]_vars

\* the list holds the two objects of one answer while an object of an earlier
\* answer, which is not in the list, is still selected
C23_Witness ==
    /\ Len(segmentObjects) = 2
    /\ segmentObjects[1].mask.src = "p0"
    /\ segmentObjects[2].mask.src = "p2"
    /\ \E i \in 1..Len(selectedObjects) : selectedObjects[i].mask.src = "n2"

\* ------------------------------------------------ unreadable source masks
\* the dimensions of a mask file cannot be read: it does not decode, or it
\* decodes to an image without width or height
DimensionsUnreadable(file) == file.src = "corrupt" \/ file.w = 0 \/ file.h = 0

\* C24: combining two or more masks of which at least one has unreadable
\* dimensions fails, with the error that says the mask dimensions cannot be
\* read; no such mask is skipped or accepted.
C24_UnreadableMaskFails ==
    ( /\ combineResult.done
      /\ Len(maskInput) >= 2
      /\ \E i \in 1..Len(maskInput) : DimensionsUnreadable(maskInput[i]) ) =>
        /\ ~combineResult.ok
        /\ combineResult.err = MaskDimensionsMsg

\* ------------------------------------------------- rejected edit requests
\* C25: a request to edit made without an image, with an empty prompt, or in
\* precision mode with an empty selection, records an error message and sends
\* nothing: no request is in flight afterwards, the loading flag is still
\* false, the history and its index are unchanged.
C25_RejectedRequest ==
    [][ ( /\ handleGenerate
          /\ \/ ~hasCurrentImage
             \/ prompt = ""
             \/ editMode = "precision" /\ Len(selectedObjects) = 0 ) =>
        /\ error' # None
        /\ editReq' = NoReq
        /\ isLoading' = FALSE
        /\ history' = history
        /\ historyIndex' = historyIndex ]_vars

\* the message about the empty selection is shown, with a prompt typed and
\* nothing in flight
C25_Witness ==
    /\ error = NoSelectionMsg
    /\ editMode = "precision"
    /\ selectedObjects = <<>>
    /\ prompt # ""
    /\ ~isLoading
    /\ editReq = NoReq
    /\ hasCurrentImage

\* ---------------------------------------------------- mask / image sizes
\* C26: whenever a precision edit request is sent, the mask of every selected
\* object has the pixel dimensions of the image being edited.
C26_MasksMatchImage ==
    PrecisionEditInFlight =>
        \A i \in 1..Len(SelectedMasks) :
           /\ SelectedMasks[i].w = editReq.image.w
           /\ SelectedMasks[i].h = editReq.image.h

\* --------------------------------------------- edits that complete late
\* C27: when an edit request completes, the history still starts with the
\* file it started with before (the most recent upload), and the new history
\* is the history up to the image the edit was generated from, followed by
\* the edited image.
C27_EditKeepsNewerState ==
    [][ EditSucceeds =>
          /\ history'[1] = history[1]
          /\ \E k \in 1..Len(history) :
                /\ history[k] = editReq.image
                /\ Len(history') = k + 1
                /\ SubSeq(history', 1, k) = SubSeq(history, 1, k) ]_vars

\* ------------------------------------------------ selection / object list
\* C28: every object of the selection set is an object of the current object
\* list, with the same id and the same mask.
C28_SelectionWithinList ==
    \A i \in 1..Len(selectedObjects) :
       \E j \in 1..Len(segmentObjects) :
          /\ segmentObjects[j].id = selectedObjects[i].id
          /\ segmentObjects[j].mask = selectedObjects[i].mask

\* ------------------------------------------------------------ history index
\* C29: once the history is not empty the index points into it; undo and redo
\* move the index by one and leave the history as it is; a step that appends
\* an image (a completed edit, an applied crop) keeps the entries up to the
\* current index, drops the ones after it, and makes the new image the last
\* and current entry.
C29_HistoryIndexInRange ==
    [][ /\ history' # <<>> => (0 <= historyIndex' /\ historyIndex' < Len(history'))
        /\ handleUndo => (historyIndex' = historyIndex - 1 /\ history' = history)
        /\ handleRedo => (historyIndex' = historyIndex + 1 /\ history' = history)
        /\ (EditSucceeds \/ \E completedCrop \in Crops : handleApplyCrop(completedCrop)) =>
              /\ Len(history') = historyIndex + 2
              /\ SubSeq(history', 1, historyIndex + 1) = SubSeq(history, 1, historyIndex + 1)
              /\ historyIndex' = Len(history') - 1 ]_vars

====
